---- MODULE Spec2Model ----
(***************************************************************************)
(* Cube map -> equirectangular reprojection (src/ImageService.cpp).        *)
(*                                                                         *)
(* The main thread loads the six face files (loadCubeMap / loadImage),     *)
(* then convertCubeMapEnEquirect allocates the destination image and runs  *)
(* the OpenMP "parallel for" over the output columns.  Every thread of the *)
(* team has its own j, i, U, V, theta, phi, cart and val (they are         *)
(* declared inside the loop); the faces, the dimensions and the            *)
(* destination are shared.  After the implicit barrier the main thread     *)
(* sets processingDone and stops the console animation.                    *)
(*                                                                         *)
(* Pixels are symbolic: the pixel at (r, c) of the image decoded from file *)
(* f is the triple <<f, r, c>>, so that every concrete image is an image   *)
(* of the symbolic one and a sampled value tells where it was read from.   *)
(* Angles are exact rational multiples of pi, <<n, d>> standing for        *)
(* (n / d) * pi; coordinates inside a face are fixed-point numbers with    *)
(* Scale units per pixel.                                                  *)
(***************************************************************************)
EXTENDS Integers, Sequences, FiniteSets, TLC

VARIABLES
    files,            \* the image folder: file name -> what is on disk
    maxThreads,       \* the OpenMP team size the runtime will give
    pc,               \* position of the main thread
    err,              \* the exception that ended the run, or "none"
    cubeFacesList,    \* vector<cv::Mat> built by loadCubeMap
    square_length,    \* cubeFacesList[0].rows
    output_width,
    output_height,
    destination,      \* the output cv::Mat: <<i, j>> -> pixel
    nextCol,          \* next iteration (column) the OpenMP runtime hands out
    wk,               \* per thread: pc and the private loop variables
    writes,           \* history: <<i, j>> -> how many times the cell was written
    processingDone,   \* shared flag read by the animation thread
    pauseAnimation,   \* shared flag read by the animation thread
    animationRunning, \* FALSE once stopAnimation() was called
    console           \* lines written to std::cout

vars == <<files, maxThreads, pc, err, cubeFacesList, square_length, output_width,
          output_height, destination, nextCol, wk, writes,
          processingDone, pauseAnimation, animationRunning, console>>

ui == <<processingDone, pauseAnimation, animationRunning, console>>

shared == <<files, maxThreads, cubeFacesList, square_length, output_width,
            output_height>>

----------------------------------------------------------------------------
(* Bounds of the model *)

MaxS == 3          \* largest face side length explored

MaxWorkers == 2    \* largest OpenMP team explored

MaxLoad == 4       \* side length + team size explored together

(* Fixed-point resolution of the projector's real-valued results *)
Scale == 1000

----------------------------------------------------------------------------
(* Data *)

faceNames == <<"left.jpg", "front.jpg", "right.jpg", "back.jpg", "bottom.jpg", "top.jpg">>

FaceIndexSet == {"X_POS", "X_NEG", "Y_POS", "Y_NEG", "Z_POS", "Z_NEG"}

Placeholder == <<"white">>

Garbage == <<"garbage">>

ZeroVec == <<"zero">>

NoCart == [faceIndex |-> "none", x |-> 0, y |-> 0]

NoAngle == <<0, 1>>

NoRead == [id |-> "none", row |-> 0, col |-> 0]

Worker0 == [pc |-> "idle", j |-> 0, i |-> 0, U |-> NoAngle, V |-> NoAngle,
            theta |-> NoAngle, phi |-> NoAngle, cart |-> NoCart, rd |-> NoRead,
            val |-> ZeroVec]

Threads == 1..MaxWorkers

Image(name, rows, cols) == [id |-> name, rows |-> rows, cols |-> cols]

Abs(n) == IF n < 0 THEN -n ELSE n

----------------------------------------------------------------------------
(* Projector: convertEquirectUVtoUnit2D of cubeMap2Equrec.hpp.  The header *)
(* is not part of the sources at hand; it is modelled from its description *)
(* (gnomonic cube projection): unit direction vector, dominant axis, the   *)
(* two other components divided by the dominant magnitude, and the rescale *)
(* pixel = (value + 1) / 2 * (S - 1).  sin and cos are evaluated in fixed  *)
(* point with Bhaskara's rational approximation                            *)
(*     sin(t * pi) ~ 16 t (1 - t) / (5 - 4 t (1 - t)),   0 <= t <= 1.      *)

Bhaskara(m, d) == (Scale * 16 * m * (d - m)) \div (5 * d * d - 4 * m * (d - m))

SinPi(n, d) ==
    LET m == n % (2 * d)
    IN  IF m <= d THEN Bhaskara(m, d) ELSE 0 - Bhaskara(m - d, d)

CosPi(n, d) == SinPi(2 * n + d, 2 * d)

Rescale(value, S) == ((value + Scale) * (S - 1)) \div 2

convertEquirectUVtoUnit2D(theta, phi, S) ==
    LET sp == SinPi(phi[1], phi[2])
        x  == (sp * CosPi(theta[1], theta[2])) \div Scale
        y  == (sp * SinPi(theta[1], theta[2])) \div Scale
        z  == CosPi(phi[1], phi[2])
        ax == Abs(x)
        ay == Abs(y)
        az == Abs(z)
    IN  IF ax >= ay /\ ax >= az
        THEN [faceIndex |-> IF x > 0 THEN "X_POS" ELSE "X_NEG",
              x |-> Rescale((y * Scale) \div ax, S),
              y |-> Rescale((z * Scale) \div ax, S)]
        ELSE IF ay >= az
        THEN [faceIndex |-> IF y > 0 THEN "Y_POS" ELSE "Y_NEG",
              x |-> Rescale((x * Scale) \div ay, S),
              y |-> Rescale((z * Scale) \div ay, S)]
        ELSE [faceIndex |-> IF z > 0 THEN "Z_POS" ELSE "Z_NEG",
              x |-> Rescale((x * Scale) \div az, S),
              y |-> Rescale((y * Scale) \div az, S)]

----------------------------------------------------------------------------
(* Helpers of the loop body *)

At0(list, k) ==
    IF k < Len(list) THEN list[k + 1] ELSE Image("missing", 0, 0)

posY(list) == At0(list, 3)

(* Faulty variant: posX taken from slot 1 (front) instead of slot 2 *)
posX_swapped(list) == At0(list, 1)

posX(list) == At0(list, 2)

negY(list) == At0(list, 0)

negX(list) == At0(list, 1)

negZ(list) == At0(list, 4)

posZ(list) == At0(list, 5)

(* Faulty variant: columns counted from 1 *)
NormU_fromOne(j, width) == <<j + 1, width - 1>>

NormU(j, width) == <<j, width - 1>>

(* Faulty variant: division by the height instead of height - 1 *)
NormV_byHeight(i, height) == <<i, height>>

NormV(i, height) == <<i, height - 1>>

ThetaOf(U) == <<U[1] * 2, U[2]>>

PhiOf(V) == V

(* Faulty variant: > instead of >= in the upper clamp *)
ClampCoord_gt(c, S) ==
    IF c < 0 THEN 0
    ELSE IF c > S * Scale THEN (S - 1) * Scale
    ELSE c

ClampCoord(c, S) ==
    IF c < 0 THEN 0
    ELSE IF c >= S * Scale THEN (S - 1) * Scale
    ELSE c

ToInt(c) == c \div Scale

InBounds(img, row, col) ==
    /\ 0 <= row /\ row < img.rows
    /\ 0 <= col /\ col < img.cols

PixelAt(img, row, col) ==
    IF InBounds(img, row, col) THEN <<img.id, row, col>> ELSE Garbage

SelectFace(faceIndex, list) ==
    CASE faceIndex = "X_POS" -> <<posX(list)>>
      [] faceIndex = "X_NEG" -> <<negX(list)>>
      [] faceIndex = "Y_POS" -> <<posY(list)>>
      [] faceIndex = "Y_NEG" -> <<negY(list)>>
      [] faceIndex = "Z_POS" -> <<posZ(list)>>
      [] faceIndex = "Z_NEG" -> <<negZ(list)>>
      [] OTHER -> << >>

Cells(height, width) == (0..(height - 1)) \X (0..(width - 1))

----------------------------------------------------------------------------
(* loadCubeMap / loadImage: one face file per step *)

LoadImage ==
    /\ pc = "load"
    /\ LET face == faceNames[Len(cubeFacesList) + 1]
           f    == files[face]
       IN  IF f.status \in {"missing", "not_regular"}
           THEN /\ err' = "Missing or invalid image"
                /\ pc' = "failed"
                /\ UNCHANGED <<cubeFacesList, pauseAnimation, console>>
           ELSE IF f.status = "undecodable"
           THEN /\ err' = "Unable to load the image"
                /\ pc' = "failed"
                /\ UNCHANGED <<cubeFacesList, pauseAnimation, console>>
           ELSE /\ cubeFacesList' = Append(cubeFacesList, Image(face, f.rows, f.cols))
                /\ pauseAnimation' = FALSE
                /\ console' = Append(console, "Image chargee")
                /\ pc' = IF Len(cubeFacesList) + 1 = Len(faceNames)
                         THEN "convert" ELSE "load"
                /\ err' = err
    /\ UNCHANGED <<files, maxThreads, square_length, output_width, output_height,
                   destination, nextCol, wk, writes, processingDone,
                   animationRunning>>

(* convertCubeMapEnEquirect up to the parallel region: face slots,         *)
(* dimensions, placeholder image, team start.  Indexing the vector past    *)
(* its end is undefined: the run crashes or goes on with garbage headers.  *)
Convert ==
    /\ pc = "convert"
    /\ \E outcome \in (IF Len(cubeFacesList) >= 6 THEN {"ok"} ELSE {"garbage", "crash"}),
          rows \in (IF Len(cubeFacesList) >= 1 THEN {cubeFacesList[1].rows} ELSE 0..MaxS) :
          IF outcome = "crash"
          THEN /\ pc' = "crashed"
               /\ err' = "vector index out of range"
               /\ UNCHANGED <<square_length, output_width, output_height,
                              destination, nextCol, wk, writes>>
          ELSE /\ square_length' = rows
               /\ output_width' = rows * 4
               /\ output_height' = rows * 2
               /\ destination' = [c \in Cells(rows * 2, rows * 4) |-> Placeholder]
               /\ writes' = [c \in Cells(rows * 2, rows * 4) |-> 0]
               /\ nextCol' = 0
               /\ wk' = [w \in Threads |->
                            IF w <= maxThreads THEN [Worker0 EXCEPT !.pc = "fetch"]
                            ELSE Worker0]
               /\ pc' = "fill"
               /\ err' = err
    /\ UNCHANGED <<files, maxThreads, cubeFacesList, ui>>

----------------------------------------------------------------------------
(* The parallel loop, one thread w of the team *)

(* Faulty variant: loop bound j < destination.cols - 1 *)
Fetch_offByOne(w) ==
    /\ pc = "fill"
    /\ wk[w].pc = "fetch"
    /\ IF nextCol < output_width - 1
       THEN /\ nextCol' = nextCol + 1
            /\ wk' = [wk EXCEPT ![w].j = nextCol, ![w].i = 0,
                                ![w].pc = IF 0 < output_height THEN "pixel" ELSE "fetch"]
       ELSE /\ wk' = [wk EXCEPT ![w].pc = "joined"]
            /\ UNCHANGED nextCol
    /\ UNCHANGED <<shared, pc, err, destination, writes, ui>>

(* Faulty variant: the iteration counter is not advanced atomically, the  *)
(* update of every thread but the first is lost                          *)
Fetch_lostUpdate(w) ==
    /\ pc = "fill"
    /\ wk[w].pc = "fetch"
    /\ IF nextCol < output_width
       THEN /\ nextCol' = IF w = 1 THEN nextCol + 1 ELSE nextCol
            /\ wk' = [wk EXCEPT ![w].j = nextCol, ![w].i = 0,
                                ![w].pc = IF 0 < output_height THEN "pixel" ELSE "fetch"]
       ELSE /\ wk' = [wk EXCEPT ![w].pc = "joined"]
            /\ UNCHANGED nextCol
    /\ UNCHANGED <<shared, pc, err, destination, writes, ui>>

(* #pragma omp parallel for / for (j ...): the runtime hands thread w its  *)
(* next column, or the thread reaches the barrier.                         *)
Fetch(w) ==
    /\ pc = "fill"
    /\ wk[w].pc = "fetch"
    /\ IF nextCol < output_width
       THEN /\ nextCol' = nextCol + 1
            /\ wk' = [wk EXCEPT ![w].j = nextCol, ![w].i = 0,
                                ![w].pc = IF 0 < output_height THEN "pixel" ELSE "fetch"]
       ELSE /\ wk' = [wk EXCEPT ![w].pc = "joined"]
            /\ UNCHANGED nextCol
    /\ UNCHANGED <<shared, pc, err, destination, writes, ui>>

(* Lines 93-116 for a given projector result: clamp, face selection, read. *)
(* A faceIndex outside the six leaves val as constructed (cv::Vec3b() is   *)
(* all zeros).                                                             *)
Sampled(cart, list, S) ==
    LET col == ToInt(ClampCoord(cart.x, S))
        row == ToInt(ClampCoord(cart.y, S))
        sel == SelectFace(cart.faceIndex, list)
    IN  IF sel = << >>
        THEN [rd |-> NoRead, ok |-> TRUE, val |-> ZeroVec]
        ELSE [rd  |-> [id |-> sel[1].id, row |-> row, col |-> col],
              ok  |-> InBounds(sel[1], row, col),
              val |-> PixelAt(sel[1], row, col)]

(* One iteration of the inner loop: U, V, theta, phi, the projector call,  *)
(* clamp and read, destination.at(i, j) = val, i++.  Everything before the *)
(* store reads only the thread's own variables and data nobody writes.     *)
(* cv::Mat::at does not check its indices in a release build and throws in *)
(* a debug build: a read outside the face yields garbage or ends the run.  *)
PixelStep(w, i, j) ==
    /\ pc = "fill"
    /\ wk[w].pc = "pixel"
    /\ LET U     == NormU(j, output_width)
           V     == NormV(i, output_height)
           theta == ThetaOf(U)
           phi   == PhiOf(V)
           cart  == convertEquirectUVtoUnit2D(theta, phi, square_length)
           s     == Sampled(cart, cubeFacesList, square_length)
           tmp   == [wk[w] EXCEPT !.U = U, !.V = V, !.theta = theta, !.phi = phi,
                                  !.cart = cart, !.rd = s.rd]
       IN  \E outcome \in (IF s.ok THEN {"ok"} ELSE {"garbage", "crash"}) :
             IF outcome = "crash"
             THEN /\ pc' = "crashed"
                  /\ err' = "read outside the face"
                  /\ wk' = [wk EXCEPT ![w] = tmp]
                  /\ UNCHANGED <<destination, writes>>
             ELSE /\ destination' = [destination EXCEPT ![<<i, j>>] = s.val]
                  /\ writes' = [writes EXCEPT ![<<i, j>>] = @ + 1]
                  /\ wk' = [wk EXCEPT ![w] = [tmp EXCEPT !.val = s.val, !.i = i + 1,
                                 !.pc = IF i + 1 < output_height THEN "pixel"
                                        ELSE "fetch"]]
                  /\ UNCHANGED <<pc, err>>
    /\ UNCHANGED <<shared, nextCol, ui>>

(* Faulty variant: j is shared by the team instead of private to the thread *)
Pixel_sharedColumn(w) == PixelStep(w, wk[w].i, nextCol - 1)

(* The loop variables j and i are the thread's own *)
Pixel(w) == PixelStep(w, wk[w].i, wk[w].j)

(* Lines 93-116 alone, applied to whatever the projector returned *)
ClampSample(w) ==
    /\ pc = "fill"
    /\ wk[w].pc = "sample"
    /\ LET s == Sampled(wk[w].cart, cubeFacesList, square_length)
       IN  \E outcome \in (IF s.ok THEN {"ok"} ELSE {"garbage", "crash"}) :
             IF outcome = "crash"
             THEN /\ pc' = "crashed"
                  /\ err' = "read outside the face"
                  /\ wk' = [wk EXCEPT ![w].rd = s.rd]
             ELSE /\ wk' = [wk EXCEPT ![w].rd = s.rd, ![w].val = s.val,
                                      ![w].pc = "sampled"]
                  /\ UNCHANGED <<pc, err>>
    /\ UNCHANGED <<shared, destination, nextCol, writes, ui>>

(* Faulty variant: no barrier at the end of the loop (nowait) *)
Join_noBarrier ==
    /\ pc = "fill"
    /\ processingDone' = TRUE
    /\ animationRunning' = FALSE
    /\ console' = Append(console, "Temps de calcul")
    /\ pc' = "done"
    /\ UNCHANGED <<shared, err, destination, nextCol, wk, writes, pauseAnimation>>

(* End of the parallel region (implicit barrier), then processingDone,     *)
(* stopAnimation() and the timing line.                                    *)
Join ==
    /\ pc = "fill"
    /\ \A w \in Threads : w <= maxThreads => wk[w].pc = "joined"
    /\ processingDone' = TRUE
    /\ animationRunning' = FALSE
    /\ console' = Append(console, "Temps de calcul")
    /\ pc' = "done"
    /\ UNCHANGED <<shared, err, destination, nextCol, wk, writes, pauseAnimation>>

----------------------------------------------------------------------------
(* Specifications *)

OkFile(S) == [status |-> "ok", rows |-> S, cols |-> S]

Names == {faceNames[k] : k \in 1..Len(faceNames)}

InitCommon ==
    /\ err = "none"
    /\ square_length = 0
    /\ output_width = 0
    /\ output_height = 0
    /\ destination = << >>
    /\ writes = << >>
    /\ nextCol = 0
    /\ wk = [w \in Threads |-> Worker0]
    /\ processingDone = FALSE
    /\ pauseAnimation = FALSE
    /\ animationRunning = TRUE
    /\ console = << >>

(* A folder holding six decodable S x S faces, any team size *)
Init ==
    /\ \E S \in 1..MaxS :
          /\ files = [n \in Names |-> OkFile(S)]
          /\ maxThreads \in {t \in 1..MaxWorkers : S + t <= MaxLoad}
    /\ pc = "load"
    /\ cubeFacesList = << >>
    /\ InitCommon

Next ==
    \/ LoadImage
    \/ Convert
    \/ \E w \in Threads : Fetch(w)
    \/ \E w \in Threads : Pixel(w)
    \/ Join

Spec == Init /\ [][Next]_vars

(* Any folder: at most one of the six files is not a decodable S x S image *)
AnyFile(S) ==
    {[status |-> st, rows |-> 0, cols |-> 0] :
        st \in {"missing", "not_regular", "undecodable"}}
    \cup {[status |-> "ok", rows |-> r, cols |-> c] : r \in 1..MaxS, c \in 1..MaxS}

InitRun ==
    /\ \E S \in 1..MaxS, bad \in Names : \E f \in AnyFile(S) :
          files = [n \in Names |-> IF n = bad THEN f ELSE OkFile(S)]
    /\ maxThreads = 1
    /\ pc = "load"
    /\ cubeFacesList = << >>
    /\ InitCommon

SpecRun == InitRun /\ [][Next]_vars

(* convertCubeMapEnEquirect called with any list of at most six images, at *)
(* most one of them not S x S                                              *)
AnyList(S) ==
    {[k \in 1..n |-> IF k = bad THEN Image(faceNames[k], r, c)
                     ELSE Image(faceNames[k], S, S)] :
        n \in 0..6, bad \in 1..6, r \in 1..MaxS, c \in 1..MaxS}

InitBuild ==
    /\ files = [n \in Names |-> OkFile(1)]
    /\ maxThreads = 1
    /\ pc = "convert"
    /\ \E S \in 1..MaxS : cubeFacesList \in AnyList(S)
    /\ InitCommon

NextBuild ==
    \/ Convert
    \/ \E w \in Threads : Fetch(w)
    \/ \E w \in Threads : Pixel(w)
    \/ Join

SpecBuild == InitBuild /\ [][NextBuild]_vars

(* Clamp and read alone: six S x S faces, thread 1 about to sample with an *)
(* arbitrary projector result (half-pixel steps from -1.5 to S + 1.5)      *)
CoordSamples(S) == {k * (Scale \div 2) : k \in (0 - 3)..(2 * S + 3)}

InitClamp ==
    /\ files = [n \in Names |-> OkFile(1)]
    /\ maxThreads = 1
    /\ pc = "fill"
    /\ err = "none"
    /\ \E S \in 1..MaxS :
          /\ cubeFacesList = [k \in 1..6 |-> Image(faceNames[k], S, S)]
          /\ square_length = S
          /\ output_width = S * 4
          /\ output_height = S * 2
          /\ destination = [c \in Cells(S * 2, S * 4) |-> Placeholder]
          /\ writes = [c \in Cells(S * 2, S * 4) |-> 0]
          /\ \E f \in FaceIndexSet, x \in CoordSamples(S), y \in CoordSamples(S) :
                wk = [w \in Threads |->
                        IF w = 1
                        THEN [Worker0 EXCEPT !.pc = "sample",
                                 !.cart = [faceIndex |-> f, x |-> x, y |-> y]]
                        ELSE Worker0]
    /\ nextCol = 1
    /\ processingDone = FALSE
    /\ pauseAnimation = FALSE
    /\ animationRunning = TRUE
    /\ console = << >>

NextClamp == \E w \in Threads : ClampSample(w)

SpecClamp == InitClamp /\ [][NextClamp]_vars

----------------------------------------------------------------------------
(* Properties *)

InLoop(w) == w <= maxThreads /\ wk[w].cart.faceIndex # "none"

AllCells == Cells(2 * square_length, 4 * square_length)

(* C1: when the parallel loop has finished, every cell (i, j) of the       *)
(* 2S x 4S output has been written exactly once: none is left at the       *)
(* placeholder, none is written twice.                                     *)
C1_EveryCellWrittenOnce ==
    pc = "done" =>
        /\ square_length >= 1
        /\ DOMAIN destination = AllCells
        /\ \A c \in AllCells : writes[c] = 1 /\ destination[c] # Placeholder

C1_Witness ==
    /\ pc = "done"
    /\ square_length = 2
    /\ maxThreads = 2
    /\ wk[1].j # wk[2].j
    /\ wk[1].i = output_height
    /\ wk[2].i = output_height

C2_OwnCellOnly(w) ==
    /\ \A v \in Threads : v # w => wk'[v] = wk[v]
    /\ UNCHANGED <<cubeFacesList, square_length, output_width, output_height>>
    /\ \A c \in DOMAIN destination :
          c # <<wk[w].i, wk[w].j>> => destination'[c] = destination[c]
    /\ \A v \in Threads :
          (v # w /\ wk[v].pc = "pixel") => wk[v].j # wk[w].j

(* C2: during the fill no cell is ever written a second time (so no two    *)
(* threads write the same cell), and a step of thread w writes nothing but *)
(* its own loop variables and its own cell (i, j) of the destination: the  *)
(* faces, the dimensions and the other threads' variables are untouched.   *)
C2_NoDataRace ==
    /\ [](\A c \in DOMAIN writes : writes[c] <= 1)
    /\ [][\A w \in Threads : Pixel(w) => C2_OwnCellOnly(w)]_vars

C2_Witness ==
    /\ pc = "fill"
    /\ wk[1].pc = "pixel"
    /\ wk[2].pc = "pixel"
    /\ wk[1].i > 0
    /\ wk[2].i > 0
    /\ writes[<<0, wk[1].j>>] = 1
    /\ writes[<<0, wk[2].j>>] = 1

RECURSIVE SerialLoop(_, _)
SerialLoop(img, j) ==
    IF j >= output_width THEN img
    ELSE SerialLoop(
            [c \in DOMAIN img |->
                IF c[2] = j
                THEN Sampled(convertEquirectUVtoUnit2D(ThetaOf(NormU(j, output_width)),
                                                       PhiOf(NormV(c[1], output_height)),
                                                       square_length),
                             cubeFacesList, square_length).val
                ELSE img[c]],
            j + 1)

SerialResult == SerialLoop([c \in AllCells |-> Placeholder], 0)

(* C3: the finished image is the one a single thread produces running the *)
(* loops in order: it depends on the faces only, not on the team size, the *)
(* assignment of columns or the interleaving.                              *)
C3_SameAsOneWorker == pc = "done" => destination = SerialResult

C3_Witness ==
    /\ pc = "done"
    /\ maxThreads = 2
    /\ square_length = 2
    /\ wk[1].j = 0
    /\ wk[2].j = output_width - 1
    /\ \E c \in AllCells : \E d \in AllCells : destination[c][1] # destination[d][1]

(* C4: with six S x S faces and any projector result (below 0, equal to S, *)
(* above S included) the row and column read are within [0, S-1]; a       *)
(* coordinate equal to S is read at S-1; no read is out of bounds.         *)
C4_ReadInBounds ==
    /\ pc # "crashed"
    /\ \A w \in Threads :
          wk[w].pc = "sampled" =>
              /\ wk[w].rd.row \in 0..(square_length - 1)
              /\ wk[w].rd.col \in 0..(square_length - 1)
              /\ wk[w].cart.x = square_length * Scale => wk[w].rd.col = square_length - 1
              /\ wk[w].cart.y = square_length * Scale => wk[w].rd.row = square_length - 1
              /\ wk[w].val = <<wk[w].rd.id, wk[w].rd.row, wk[w].rd.col>>

C4_Witness ==
    /\ wk[1].pc = "sampled"
    /\ square_length = 2
    /\ wk[1].cart.x = square_length * Scale
    /\ wk[1].cart.y < 0
    /\ wk[1].rd.col = 1
    /\ wk[1].rd.row = 0

ValidFaceSet(list) ==
    /\ Len(list) >= 6
    /\ \A k \in 1..Len(list) :
          list[k].rows = list[1].rows /\ list[k].cols = list[1].rows

(* C5: building the panorama from fewer than six images, or from images    *)
(* that are not all square with the same side, fails with a configuration  *)
(* error before any output pixel is written, and never reads a missing     *)
(* face or a face outside its bounds.                                      *)
C5_ConfigurationError ==
    /\ (pc # "convert" /\ ~ValidFaceSet(cubeFacesList)) =>
          /\ pc = "failed"
          /\ err = "ConfigurationError"
          /\ \A c \in DOMAIN writes : writes[c] = 0
    /\ pc # "crashed"
    /\ \A w \in Threads : wk[w].val # Garbage /\ wk[w].rd.id # "missing"

C6_Order == <<"left.jpg", "front.jpg", "right.jpg", "back.jpg", "bottom.jpg", "top.jpg">>

C6_Slot ==
    [F \in FaceIndexSet |->
        CASE F = "Y_NEG" -> 1
          [] F = "X_NEG" -> 2
          [] F = "X_POS" -> 3
          [] F = "Y_POS" -> 4
          [] F = "Z_NEG" -> 5
          [] F = "Z_POS" -> 6]

(* C6: the inputs are loaded in the order left, front, right, back,        *)
(* bottom, top and assigned 1st -> Y_NEG, 2nd -> X_NEG, 3rd -> X_POS,      *)
(* 4th -> Y_POS, 5th -> Z_NEG, 6th -> Z_POS; the assignment is a bijection *)
(* and a pixel whose projected faceIndex is F is sampled from the input    *)
(* assigned to F.                                                          *)
C6_FaceAssignment ==
    /\ pc \in {"fill", "done"} =>
          /\ Len(cubeFacesList) = 6
          /\ \A k \in 1..6 : cubeFacesList[k].id = C6_Order[k]
          /\ \A F \in FaceIndexSet :
                SelectFace(F, cubeFacesList) = <<cubeFacesList[C6_Slot[F]]>>
          /\ \A F \in FaceIndexSet : \A G \in FaceIndexSet :
                SelectFace(F, cubeFacesList) = SelectFace(G, cubeFacesList) => F = G
    /\ \A w \in Threads :
          InLoop(w) => wk[w].rd.id = C6_Order[C6_Slot[wk[w].cart.faceIndex]]
    /\ pc = "done" =>
          \A c \in DOMAIN destination :
              destination[c][1] =
                  C6_Order[C6_Slot[convertEquirectUVtoUnit2D(
                      <<2 * c[2], 4 * square_length - 1>>,
                      <<c[1], 2 * square_length - 1>>, square_length).faceIndex]]

C6_Witness ==
    /\ pc = "done"
    /\ \A k \in 1..6 : \E c \in DOMAIN destination : destination[c][1] = C6_Order[k]

(* C7: over a run of loadCubeMap then convertCubeMapEnEquirect there is no *)
(* partial result: an error is raised before the first output pixel is     *)
(* written, or every pixel is filled with a face sample and the panorama   *)
(* is returned; once filling has begun the run cannot fail.                *)
C7_NoPartialResult ==
    /\ pc \in {"failed", "crashed"} => \A c \in DOMAIN writes : writes[c] = 0
    /\ pc = "done" =>
          \A c \in DOMAIN destination :
              writes[c] = 1 /\ destination[c] \notin {Placeholder, Garbage}

C8_Clamp(v) ==
    LET t == v \div Scale
    IN  IF v < 0 THEN 0 ELSE IF t > square_length - 1 THEN square_length - 1 ELSE t

C8_Cart(i, j) ==
    convertEquirectUVtoUnit2D(<<2 * j, 4 * square_length - 1>>,
                              <<i, 2 * square_length - 1>>, square_length)

C8_CellOk(c) ==
    LET cart == C8_Cart(c[1], c[2])
    IN  /\ writes[c] > 0
        /\ cart.faceIndex \in FaceIndexSet
        /\ destination[c] = <<C6_Order[C6_Slot[cart.faceIndex]],
                              C8_Clamp(cart.y), C8_Clamp(cart.x)>>
        /\ destination[c][1] \in Names
        /\ destination[c][2] \in 0..(square_length - 1)
        /\ destination[c][3] \in 0..(square_length - 1)

(* C8: the value written to (i, j) is the pixel of the face named by       *)
(* cart.faceIndex at row clamp(cart.y), column clamp(cart.x), cart being   *)
(* the projector result for theta = j/(4S-1) * 2 pi, phi = i/(2S-1) * pi;  *)
(* faceIndex is one of the six, so the value is a sample of one of the six *)
(* faces.                                                                  *)
C8_WrittenValue ==
    /\ \A w \in Threads :
          InLoop(w) =>
              C8_CellOk(<<wk[w].V[1], wk[w].U[1]>>)
    /\ pc = "done" => \A c \in DOMAIN destination : C8_CellOk(c)

C8_Witness ==
    /\ pc = "done"
    /\ square_length = 3
    /\ \E c \in DOMAIN destination : \E d \in DOMAIN destination :
          /\ destination[c][2] # destination[d][2]
          /\ destination[c][3] # destination[d][3]

Filled ==
    /\ \A w \in Threads : w <= maxThreads => wk[w].pc = "joined"
    /\ DOMAIN writes = AllCells
    /\ \A c \in AllCells : writes[c] >= 1 /\ destination[c] # Placeholder

(* C10: processingDone is set, and stopAnimation called, only after every  *)
(* thread has finished and every pixel is written; no thread of the loop   *)
(* touches processingDone, pauseAnimation, the console or the animation.   *)
C10_DoneOnlyAfterFill ==
    /\ []((processingDone \/ ~animationRunning) => Filled)
    /\ [][(\E w \in Threads : Fetch(w) \/ Pixel(w)) => UNCHANGED ui]_vars

C10_Witness ==
    /\ processingDone
    /\ ~animationRunning
    /\ maxThreads = 2
    /\ square_length = 2
    /\ Filled

====
